---- MODULE Spec2Model ----
(***************************************************************************)
(* Model of packages/vuetify/src/composables/goto.ts: the scroll animator  *)
(* scrollTo, its frame callback step, the offset and clamp helpers and the *)
(* facade returned by useGoTo.                                             *)
(*                                                                         *)
(* Numbers are integers (pixels and milliseconds).  progress and the value *)
(* of an easing curve are exact rationals, carried as a pair               *)
(* <<numerator, denominator>> with a positive denominator, so that         *)
(* Math.floor is an integer floor division.                                *)
(***************************************************************************)
EXTENDS Integers, Sequences, FiniteSets, TLC

\* ------------------------------------------------------------------ bounds

\* Frame timestamps and performance.now() readings range over 0..MaxTime.
MaxTime == 4

\* performance.now() at call time is ahead of the last frame's timestamp by
\* at most MaxLag.
MaxLag == 2

\* The sizes of the pane (an element whose geometry varies from document to
\* document) range over 0..MaxSize.
MaxSize == 3

\* ------------------------------------------------------- option records

\* A key of a Partial<GoToOptions>: either absent or present with a value.
Absent(v) == [set |-> FALSE, v |-> v]
Given(v) == [set |-> TRUE, v |-> v]

\* Target and container descriptors: a number, an HTMLElement, a selector
\* string, a component handle (mounted: id is its root element) or undefined.
Num(n) == [kind |-> "num", n |-> n, id |-> "none"]
El(e) == [kind |-> "el", n |-> 0, id |-> e]
Sel(s) == [kind |-> "sel", n |-> 0, id |-> s]
Cmp(e) == [kind |-> "cmp", n |-> 0, id |-> e]
Undef == [kind |-> "undef", n |-> 0, id |-> "none"]

\* The easing option: a pattern name or a curve function given directly.
EaseName(s) == [kind |-> "name", id |-> s]
EaseFn(c) == [kind |-> "fn", id |-> c]

\* The names a patterns map may bind; "none" is the value of an unbound name.
BuiltinNames ==
  {"linear", "easeInQuad", "easeOutQuad", "easeInOutQuad", "easeInCubic",
   "easeOutCubic", "easeInOutCubic", "easeInQuart", "easeOutQuart",
   "easeInOutQuart", "easeInQuint", "easeOutQuint", "easeInOutQuint"}
PatternNames == BuiltinNames \cup {"custom", "doesNotExist"}
NoPatterns == [p \in PatternNames |-> "none"]

\* genDefaults(): the library defaults.
DefaultDuration == 300
genDefaults ==
  [container |-> Given(Undef),
   duration |-> Given(DefaultDuration),
   layout |-> Given(FALSE),
   offset |-> Given(0),
   easing |-> Given(EaseName("easeInOutCubic")),
   patterns |-> [p \in PatternNames |-> IF p \in BuiltinNames THEN p ELSE "none"]]

\* The empty Partial<GoToOptions>.
NoOptions ==
  [container |-> Absent(Undef),
   duration |-> Absent(0),
   layout |-> Absent(FALSE),
   offset |-> Absent(0),
   easing |-> Absent(EaseName("none")),
   patterns |-> NoPatterns]

\* mergeDeep(source, target) of '@/util': target's keys win, and the nested
\* patterns objects are merged key by key.
MergeKey(s, t) == IF t.set THEN t ELSE s
mergeDeep(source, target) ==
  [container |-> MergeKey(source.container, target.container),
   duration |-> MergeKey(source.duration, target.duration),
   layout |-> MergeKey(source.layout, target.layout),
   offset |-> MergeKey(source.offset, target.offset),
   easing |-> MergeKey(source.easing, target.easing),
   patterns |-> [p \in PatternNames |->
                   IF target.patterns[p] # "none" THEN target.patterns[p]
                   ELSE source.patterns[p]]]


\* mergeDeep with its source overwritten in place (Object.assign(source, ...)).
MergedSourceAssigned(source, target) == mergeDeep(source, target)

\* What mergeDeep(source, target) leaves in the object passed as source: the
\* merge is built in a new object and the source stays as it was.
MergedSource(source, target) == source

\* ------------------------------------------------------------ easing curves

\* The curves of genDefaults().patterns and one user curve, "back"
\* (t => 2 * t ** 2 - t, negative below t = 1/2), each evaluated at the
\* rational n / d as the rational <<numerator, denominator>>.
Pow(x, k) == IF k = 2 THEN x * x
             ELSE IF k = 3 THEN x * x * x
             ELSE IF k = 4 THEN x * x * x * x
             ELSE x * x * x * x * x

EaseAt(c, n, d) ==
  CASE c = "linear" -> <<n, d>>
    [] c = "easeInQuad" -> <<Pow(n, 2), Pow(d, 2)>>
    [] c = "easeOutQuad" -> <<n * (2 * d - n), Pow(d, 2)>>
    [] c = "easeInOutQuad" ->
         IF 2 * n < d THEN <<2 * Pow(n, 2), Pow(d, 2)>>
         ELSE <<(4 * d - 2 * n) * n - Pow(d, 2), Pow(d, 2)>>
    [] c = "easeInCubic" -> <<Pow(n, 3), Pow(d, 3)>>
    [] c = "easeOutCubic" -> <<Pow(n - d, 3) + Pow(d, 3), Pow(d, 3)>>
    [] c = "easeInOutCubic" ->
         IF 2 * n < d THEN <<4 * Pow(n, 3), Pow(d, 3)>>
         ELSE <<(n - d) * (2 * n - 2 * d) * (2 * n - 2 * d) + Pow(d, 3), Pow(d, 3)>>
    [] c = "easeInQuart" -> <<Pow(n, 4), Pow(d, 4)>>
    [] c = "easeOutQuart" -> <<Pow(d, 4) - Pow(n - d, 4), Pow(d, 4)>>
    [] c = "easeInOutQuart" ->
         IF 2 * n < d THEN <<8 * Pow(n, 4), Pow(d, 4)>>
         ELSE <<Pow(d, 4) - 8 * Pow(n - d, 4), Pow(d, 4)>>
    [] c = "easeInQuint" -> <<Pow(n, 5), Pow(d, 5)>>
    [] c = "easeOutQuint" -> <<Pow(d, 5) + Pow(n - d, 5), Pow(d, 5)>>
    [] c = "easeInOutQuint" ->
         IF 2 * n < d THEN <<16 * Pow(n, 5), Pow(d, 5)>>
         ELSE <<Pow(d, 5) + 16 * Pow(n - d, 5), Pow(d, 5)>>
    [] c = "back" -> <<2 * Pow(n, 2) - n * d, Pow(d, 2)>>
    [] OTHER -> <<n, d>>

\* ------------------------------------------------------------------- the DOM

VARIABLE
  pane       \* the geometry and the offsetParent of the element "pane"

\* The document: html > body > box > item, and a pane whose geometry and
\* whose place in the tree differ from document to document (the variable
\* pane).  "none" is null / undefined.
Elements == {"html", "body", "box", "item", "pane"}

\* document.scrollingElement and document.body (a document whose scrolling
\* element is its body).
ScrollingElement == "body"
DocumentBody == "body"
DocumentElement == "html"

ParentElement(e) ==
  CASE e = "item" -> "box" [] e = "box" -> "body" [] e = "body" -> "html" [] OTHER -> "none"
OffsetParent(e) ==
  CASE e = "item" -> "box" [] e = "box" -> "body" [] e = "pane" -> pane.offsetParent
    [] OTHER -> "none"
OffsetTop(e) ==
  CASE e = "item" -> 3 [] e = "box" -> 1 [] e = "pane" -> pane.offsetTop [] OTHER -> 0
OffsetLeft(e) ==
  CASE e = "item" -> 2 [] e = "box" -> 1 [] e = "pane" -> pane.offsetLeft [] OTHER -> 0

\* Element geometry.  The body's own box is smaller than the viewport
\* (html's client size) while its content overflows; the box has a border.
ClientHeight(e) == CASE e = "html" -> 3 [] e = "body" -> 3 [] e = "box" -> 2 [] OTHER -> 0
ClientWidth(e) == CASE e = "html" -> 3 [] e = "body" -> 3 [] e = "box" -> 2 [] OTHER -> 0
OffsetHeight(e) ==
  CASE e = "html" -> 1 [] e = "body" -> 1 [] e = "box" -> 3
    [] e = "pane" -> pane.offsetHeight [] OTHER -> 0
OffsetWidth(e) ==
  CASE e = "html" -> 2 [] e = "body" -> 2 [] e = "box" -> 2
    [] e = "pane" -> pane.offsetWidth [] OTHER -> 0
ScrollHeight(e) ==
  CASE e = "html" -> 6 [] e = "body" -> 6 [] e = "box" -> 6
    [] e = "pane" -> pane.scrollHeight [] OTHER -> 0
ScrollWidth(e) ==
  CASE e = "html" -> 6 [] e = "body" -> 6 [] e = "box" -> 5
    [] e = "pane" -> pane.scrollWidth [] OTHER -> 0

\* getComputedStyle(e).getPropertyValue('--v-layout-top'): has |-> FALSE is
\* the empty string, otherwise parseInt(value, 10) is px.
LayoutTop(e) ==
  IF e = "item" THEN [has |-> TRUE, px |-> 1] ELSE [has |-> FALSE, px |-> 0]

\* document.querySelector(selector): the first match or null.
querySelector(s) ==
  CASE s = "#box" -> "box" [] s = "#item" -> "item" [] s = "body" -> "body"
    [] s = "#pane" -> "pane" [] OTHER -> "none"

\* refElement(el) of '@/util': an element as it is, a component handle's root
\* element, undefined for undefined or an unmounted handle.
refElement(el) == IF el.kind \in {"el", "cmp"} THEN el.id ELSE "none"

getTarget(el) == IF el.kind = "sel" THEN querySelector(el.id) ELSE refElement(el)

getContainer(el) ==
  LET t == getTarget(el)
  IN  IF t # "none" THEN t
      ELSE IF ScrollingElement # "none" THEN ScrollingElement ELSE DocumentBody


\* A loop that stops after the element's own offsetParent.
OffsetChainTwoLevels(el, horizontal) ==
  IF el = "none" THEN 0
  ELSE (IF horizontal THEN OffsetLeft(el) ELSE OffsetTop(el))
       + (IF horizontal THEN OffsetLeft(OffsetParent(el)) ELSE OffsetTop(OffsetParent(el)))

\* The while loop of getOffset: the offsets along the offsetParent chain.
RECURSIVE OffsetChain(_, _)
OffsetChain(el, horizontal) ==
  IF el = "none" THEN 0
  ELSE (IF horizontal THEN OffsetLeft(el) ELSE OffsetTop(el))
       + OffsetChain(OffsetParent(el), horizontal)


\* A getOffset that negates a number whenever rtl is set, on either axis.
getOffsetRtlAnyAxis(target, horizontal, rtl) ==
  IF target.kind = "num"
  THEN IF rtl THEN -target.n ELSE target.n
  ELSE OffsetChain(getTarget(target), horizontal)

getOffset(target, horizontal, rtl) ==
  IF target.kind = "num"
  THEN IF horizontal /\ rtl THEN -target.n ELSE target.n
  ELSE OffsetChain(getTarget(target), horizontal)

Min(a, b) == IF a < b THEN a ELSE b
Max(a, b) == IF a > b THEN a ELSE b


\* A clamp whose horizontal range does not depend on rtl.
ClampRangeLtr(container, rtl, horizontal) ==
  IF horizontal
  THEN <<0, ScrollWidth(container) - OffsetWidth(container)>>
  ELSE <<0, ScrollHeight(container) + -OffsetHeight(container)>>

\* A clamp whose range is the whole scroll size.
ClampRangeScrollSize(container, rtl, horizontal) ==
  IF horizontal
  THEN IF rtl
       THEN <<-ScrollWidth(container), 0>>
       ELSE <<0, ScrollWidth(container)>>
  ELSE <<0, ScrollHeight(container)>>

\* The [min, max] pair of clampTarget.
ClampRange(container, rtl, horizontal) ==
  IF horizontal
  THEN IF rtl
       THEN <<-(ScrollWidth(container) - OffsetWidth(container)), 0>>
       ELSE <<0, ScrollWidth(container) - OffsetWidth(container)>>
  ELSE <<0, ScrollHeight(container) + -OffsetHeight(container)>>


\* A clamp that folds a value beyond an end of the range back from that end
\* instead of stopping at it.
clampTargetFolded(container, value, rtl, horizontal) ==
  LET range == ClampRange(container, rtl, horizontal)
  IN  IF value > range[2] THEN range[2] - (value - range[2])
      ELSE IF value < range[1] THEN range[1] + (range[1] - value)
      ELSE value

clampTarget(container, value, rtl, horizontal) ==
  LET range == ClampRange(container, rtl, horizontal)
  IN  Max(Min(value, range[2]), range[1])

\* The client size the boundary check of step reads.
ClientSize(container, horizontal) ==
  IF horizontal
  THEN IF container = DocumentBody THEN ClientWidth(DocumentElement)
       ELSE ClientWidth(container)
  ELSE IF container = DocumentBody THEN ClientHeight(DocumentElement)
       ELSE ClientHeight(container)

ScrollSize(container, horizontal) ==
  IF horizontal THEN ScrollWidth(container) ELSE ScrollHeight(container)

\* What the DOM stores when scrollLeft / scrollTop is assigned v: the value
\* brought into the scrolling area, which for a right-to-left container runs
\* from -(scroll size - client size) to 0 on the horizontal axis.
ScrollExtent(container, horizontal) ==
  Max(ScrollSize(container, horizontal) - ClientSize(container, horizontal), 0)
DomScroll(container, horizontal, rtlDir, v) ==
  IF horizontal /\ rtlDir
  THEN Max(Min(v, 0), -ScrollExtent(container, horizontal))
  ELSE Max(Min(v, ScrollExtent(container, horizontal)), 0)

\* --------------------------------------------------------------- the state


\* The elements that are resolved as scroll containers.
Containers == {"body", "box"}

\* The frames an observer counts per run: 0, 1, ..., MaxFrames (or more).
MaxFrames == 2

VARIABLES
  goTo,      \* the injected GoToInstance: its options (createGoTo)
  rtl,       \* goTo.rtl.value; also the direction of the containers
  _options,  \* the argument of useGoTo
  scroll,    \* scroll[c]: scrollTop and scrollLeft of container c
  now,       \* the timestamp of the current animation frame
  runs,      \* runs[r]: the state of call r and of its promise
  seen       \* history: the options given to createGoTo and the last call
             \* an observer followed, with its arguments and its result

vars == <<goTo, rtl, _options, scroll, now, runs, pane, seen>>

\* The calls of scrollTo the model follows, each made at most once.
Runs == DOMAIN runs

\* A call not made yet.
IdleRun ==
  [st |-> "Idle", horizontal |-> FALSE, container |-> "none",
   easing |-> EaseName("none"), ease |-> "none", duration |-> 0,
   located |-> FALSE, targetLocation |-> 0, startLocation |-> 0,
   startTime |-> 0, cb |-> "none", frames |-> 0, wrote |-> FALSE,
   timeElapsed |-> 0, location |-> 0, result |-> 0, via |-> "none"]


\* A createGoTo whose merge has its arguments the other way round, so that
\* the library defaults win.
createGoToDefaultsWin(options) == [options |-> mergeDeep(options, genDefaults)]

\* createGoTo(options, locale): the shared instance.
createGoTo(options) == [options |-> mergeDeep(genDefaults, options)]

\* A pane that is not rendered: every size is 0 and it has no offsetParent.
NoPane ==
  [scrollWidth |-> 0, scrollHeight |-> 0, offsetWidth |-> 0, offsetHeight |-> 0,
   offsetLeft |-> 0, offsetTop |-> 0, offsetParent |-> "none"]

\* The history before any call is followed; create is what the application
\* passed to createGoTo.
NotSeen(create) ==
  [create |-> create, fn |-> "none", target |-> Undef, options |-> NoOptions,
   value |-> 0, rtl |-> FALSE, horizontal |-> FALSE, result |-> 0]

\* The configurations the model starts from: the options an application
\* installs with createGoTo and the options a component passes to useGoTo.
Configurations ==
  {[create |-> [NoOptions EXCEPT !.duration = Given(2)],
    use |-> NoOptions],
   [create |-> [NoOptions EXCEPT !.duration = Given(3),
                                 !.easing = Given(EaseName("linear"))],
    use |-> [NoOptions EXCEPT !.easing = Given(EaseName("easeOutQuad"))]]}

\* The scroll positions the body may be found at: the start or the end of its
\* scrolling area on both axes.
StartPositions(dir) ==
  {[top |-> DomScroll("body", FALSE, dir, p),
    left |-> DomScroll("body", TRUE, dir, IF dir THEN -p ELSE p)] :
     p \in {0, Max(ScrollExtent("body", FALSE), ScrollExtent("body", TRUE))}}

Init ==
  /\ \E cfg \in Configurations :
       /\ goTo = createGoTo(cfg.create)
       /\ _options = cfg.use
       /\ seen = NotSeen(cfg.create)
  /\ pane = NoPane
  /\ rtl \in BOOLEAN
  /\ scroll \in {[c \in Containers |-> IF c = "body" THEN b ELSE [top |-> 0, left |-> 0]] :
                  b \in StartPositions(rtl)}
  /\ now = 0
  /\ runs = [r \in {1} |-> IdleRun]

\* ------------------------------------------------------------------ scrollTo

\* Line 87: the target as a number or an element, 0 when it resolves to nothing.
ResolveTarget(_target) ==
  IF _target.kind = "num" THEN _target
  ELSE IF getTarget(_target) = "none" THEN Num(0)
  ELSE El(getTarget(_target))

\* Lines 88-90.
ResolveContainer(options, target) ==
  IF options.container.v = Sel("parent") /\ target.kind = "el"
  THEN ParentElement(target.id)
  ELSE getContainer(options.container.v)

\* Line 91: the curve, "none" when the name is not in options.patterns.
ResolveEase(options) ==
  IF options.easing.v.kind = "fn" THEN options.easing.v.id
  ELSE options.patterns[options.easing.v.id]


\* A scrollTo that never notices a missing easing.
EaseMissingIgnored(ease) == FALSE

\* Line 93: the easing is missing and scrollTo throws.
EaseMissing(ease) == ease = "none"


\* A target location to which the offset option is added for element
\* targets only.
TargetLocationOffsetElementsOnly(target, container, options, horizontal, rtlFlag) ==
  LET base == IF target.kind = "num"
              THEN getOffset(target, horizontal, rtlFlag)
              ELSE getOffset(target, horizontal, rtlFlag)
                   - getOffset(El(container), horizontal, rtlFlag)
      layoutOffset == IF target.kind # "num" /\ options.layout.v /\ LayoutTop(target.id).has
                      THEN LayoutTop(target.id).px ELSE 0
  IN  clampTarget(container,
                  base - layoutOffset + (IF target.kind = "num" THEN 0 ELSE options.offset.v),
                  rtlFlag, horizontal)

\* Lines 95-112: the clamped target location.
TargetLocation(target, container, options, horizontal, rtlFlag) ==
  LET base == IF target.kind = "num"
              THEN getOffset(target, horizontal, rtlFlag)
              ELSE getOffset(target, horizontal, rtlFlag)
                   - getOffset(El(container), horizontal, rtlFlag)
      layoutOffset == IF target.kind # "num" /\ options.layout.v /\ LayoutTop(target.id).has
                      THEN LayoutTop(target.id).px ELSE 0
  IN  clampTarget(container, base - layoutOffset + options.offset.v, rtlFlag, horizontal)

\* Line 115.
StartLocation(container, horizontal) ==
  IF horizontal THEN scroll[container].left ELSE scroll[container].top


\* A scrollTo without the short circuit.
AlreadyThereIgnored(targetLocation, startLocation) == FALSE

\* Line 117: the short circuit.
AlreadyThere(targetLocation, startLocation) == targetLocation = startLocation


\* A promise resolved with the scroll position the container is left at.
ResolveValuePosition(targetLocation, position) == position

\* The value a promise resolves with (lines 117, 128, 137, 142), given the
\* target location and the container's scroll position at that moment.
ResolveValue(targetLocation, position) == targetLocation

\* scrollTo(_target, given, horizontal, goTo); lag is how far
\* performance.now() is ahead of the current frame's timestamp.  The merge of
\* line 85 has goTo.options as its source.
ScrollTo(r, _target, given, horizontal, lag) ==
  LET options == mergeDeep(goTo.options, given)
      target == ResolveTarget(_target)
      container == ResolveContainer(options, target)
      ease == ResolveEase(options)
      targetLocation == TargetLocation(target, container, options, horizontal, rtl)
      startLocation == StartLocation(container, horizontal)
      called == [IdleRun EXCEPT !.horizontal = horizontal, !.container = container,
                                !.easing = options.easing.v, !.ease = ease,
                                !.duration = options.duration.v]
      placed == [called EXCEPT !.located = TRUE, !.targetLocation = targetLocation,
                               !.startLocation = startLocation]
  IN  /\ runs[r].st = "Idle"
      /\ runs' = [runs EXCEPT ![r] =
           IF EaseMissing(ease) THEN [called EXCEPT !.st = "Failed"]
           ELSE IF AlreadyThere(targetLocation, startLocation)
           THEN [placed EXCEPT !.st = "Settled", !.via = "immediate",
                               !.result = ResolveValue(targetLocation, startLocation)]
           ELSE [placed EXCEPT !.st = "Running", !.startTime = now + lag,
                               !.cb = "requested"]]
      /\ goTo' = [goTo EXCEPT !.options = MergedSource(goTo.options, given)]
      /\ UNCHANGED <<rtl, scroll, now, pane>>

\* ------------------------------------------------------------------ step

Abs(x) == IF x < 0 THEN -x ELSE x


\* progress without the duration ? ... : 1 guard, dividing by one instead.
ProgressZeroDivides(duration, timeElapsed) ==
  IF duration = 0 THEN <<Abs(timeElapsed), 1>>
  ELSE LET n == IF duration < 0 THEN -timeElapsed ELSE timeElapsed
           d == Abs(duration)
       IN  IF n >= d THEN <<1, 1>> ELSE <<Abs(n), d>>

\* progress without Math.min(..., 1).
ProgressUncapped(duration, timeElapsed) ==
  IF duration = 0 THEN <<1, 1>> ELSE <<Abs(timeElapsed), Abs(duration)>>

\* Line 123: Math.abs(duration ? Math.min(timeElapsed / duration, 1) : 1).
Progress(duration, timeElapsed) ==
  IF duration = 0 THEN <<1, 1>>
  ELSE LET n == IF duration < 0 THEN -timeElapsed ELSE timeElapsed
           d == Abs(duration)
       IN  IF n >= d THEN <<1, 1>> ELSE <<Abs(n), d>>

\* Line 124: Math.floor(startLocation + (targetLocation - startLocation) * e),
\* e the rational <<numerator, denominator>>.
Location(startLocation, targetLocation, e) ==
  startLocation + (((targetLocation - startLocation) * e[1]) \div e[2])

\* Line 128: progress === 1.
Finished(progress) == progress[1] = progress[2]


\* The boundary check without the comparison of target and position.
ReachedEndAnyTarget(targetLocation, position, clientSize, scrollSize) ==
  clientSize + position >= scrollSize

\* The boundary check for a target on either side of the position.
ReachedEndEitherWay(targetLocation, position, clientSize, scrollSize) ==
  targetLocation # position /\ clientSize + position >= scrollSize

\* The boundary check with > in place of >=.
ReachedEndStrict(targetLocation, position, clientSize, scrollSize) ==
  targetLocation > position /\ clientSize + position > scrollSize

\* Lines 133-143: the container has reached its scrollable end and the
\* target lies beyond its position.
ReachedEnd(targetLocation, position, clientSize, scrollSize) ==
  targetLocation > position /\ clientSize + position >= scrollSize


\* A step that requests the next frame whether or not it resolved, and one
\* that never requests it.
NextCallbackAlways(settled) == "requested"
NextCallbackNever(settled) == "none"

\* Lines 128, 137, 142 return; line 145 requests the next frame.
NextCallback(settled) == IF settled THEN "none" ELSE "requested"

\* One call of the frame callback of run r, with currentTime = now.
Step(r) ==
  LET run == runs[r]
      progress == Progress(run.duration, now - run.startTime)
      location == Location(run.startLocation, run.targetLocation,
                           EaseAt(run.ease, progress[1], progress[2]))
      position == DomScroll(run.container, run.horizontal, rtl, location)
      finished == Finished(progress)
      reached == ReachedEnd(run.targetLocation, position,
                            ClientSize(run.container, run.horizontal),
                            ScrollSize(run.container, run.horizontal))
      settled == finished \/ reached
      stepped == [run EXCEPT !.frames = Min(run.frames + 1, MaxFrames),
                             !.wrote = TRUE, !.timeElapsed = now - run.startTime,
                             !.location = location,
                             !.cb = NextCallback(settled)]
  IN  /\ run.cb = "ready"
      /\ scroll' = [scroll EXCEPT ![run.container] =
           IF run.horizontal THEN [@ EXCEPT !.left = position]
           ELSE [@ EXCEPT !.top = position]]
      /\ runs' = [runs EXCEPT ![r] =
           IF settled
           THEN [stepped EXCEPT !.st = "Settled",
                                !.via = IF finished THEN "complete" ELSE "boundary",
                                !.result = ResolveValue(run.targetLocation, position)]
           ELSE stepped]
      /\ UNCHANGED <<goTo, rtl, _options, now, pane, seen>>

\* ---------------------------------------------------------- animation frames

\* The browser begins a frame once the callbacks of the previous one have
\* run: the callbacks requested so far are due, all with the same timestamp.
\* Frames for which no callback is requested are not followed.
BeginFrame(t) ==
  /\ \A r \in Runs : runs[r].cb # "ready"
  /\ \E r \in Runs : runs[r].cb = "requested"
  /\ now' = t
  /\ runs' = [r \in Runs |->
                IF runs[r].cb = "requested" THEN [runs[r] EXCEPT !.cb = "ready"]
                ELSE runs[r]]
  /\ UNCHANGED <<goTo, rtl, _options, scroll, pane, seen>>

\* A frame with any timestamp (a timestamp may precede an earlier reading of
\* performance.now()).
Frame == \E t \in 0..MaxTime : BeginFrame(t)

\* A frame whose timestamp is later than the previous frame's.
LaterFrame == \E t \in (now + 1)..MaxTime : BeginFrame(t)

\* ------------------------------------------------------------------ useGoTo

\* The targets and the per-call options of the calls the model makes.
Targets ==
  {Num(0), Num(2), Num(4), Num(9), El("item"), Cmp("box"), Sel("#missing"), Cmp("none")}

DurationChoices == {Absent(0), Given(0), Given(1)}
EasingChoices ==
  {Absent(EaseName("none")), Given(EaseName("easeInQuad")),
   Given(EaseName("doesNotExist")), Given(EaseFn("back"))}
CallOptions ==
  {[NoOptions EXCEPT !.duration = d, !.easing = e] :
     d \in DurationChoices, e \in EasingChoices}
  \cup {[NoOptions EXCEPT !.container = Given(Sel("parent"))],
        [NoOptions EXCEPT !.container = Given(Sel("#box"))],
        [NoOptions EXCEPT !.layout = Given(TRUE)],
        [NoOptions EXCEPT !.offset = Given(-1)],
        [NoOptions EXCEPT !.easing = Given(EaseName("custom"))],
        [NoOptions EXCEPT !.easing = Given(EaseName("custom")),
                          !.patterns = [NoPatterns EXCEPT !["custom"] = "back"]]}

\* The calls that are followed frame by frame: those whose animation ends
\* by MaxTime.
Timely(options, lag) ==
  /\ now + 1 <= MaxTime
  /\ now + lag + mergeDeep(goTo.options, mergeDeep(_options, options)).duration.v
       <= MaxTime

\* go(target, options): the merge of line 165 has _options as its source.
Go(r) ==
  \E target \in Targets, options \in CallOptions, lag \in 0..MaxLag :
    /\ ScrollTo(r, target, mergeDeep(_options, options), FALSE, lag)
    /\ Timely(options, lag)
    /\ _options' = MergedSource(_options, options)
    /\ UNCHANGED seen

\* go.horizontal(target, options): line 172.
GoHorizontal(r) ==
  \E target \in Targets, options \in CallOptions, lag \in 0..MaxLag :
    /\ ScrollTo(r, target, mergeDeep(_options, options), TRUE, lag)
    /\ Timely(options, lag)
    /\ _options' = MergedSource(_options, options)
    /\ UNCHANGED seen

\* ------------------------------------------------------------ specifications

Next ==
  \/ \E r \in Runs : Go(r)
  \/ \E r \in Runs : GoHorizontal(r)
  \/ \E r \in Runs : Step(r)
  \/ Frame

Spec == Init /\ [][Next]_vars

\* A single call whose frames arrive with strictly increasing timestamps and
\* keep arriving: the browser delivers a frame while a callback is requested
\* and runs every callback that is due.
NextLater ==
  \/ \E r \in Runs : Go(r)
  \/ \E r \in Runs : GoHorizontal(r)
  \/ \E r \in Runs : Step(r)
  \/ LaterFrame

SpecLater ==
  Init /\ [][NextLater]_vars /\ WF_vars(LaterFrame) /\ WF_vars(Step(1))

\* Two calls of go on the document's scroll container, made at any moments,
\* their callbacks run in any order within a frame.
PairTargets == {Num(0), Num(2), Num(4)}
PairOptions ==
  {NoOptions, [NoOptions EXCEPT !.duration = Given(1)],
   [NoOptions EXCEPT !.easing = Given(EaseFn("back"))]}

GoPair(r) ==
  \E target \in PairTargets, options \in PairOptions :
    /\ ScrollTo(r, target, mergeDeep(_options, options), FALSE, 0)
    /\ Timely(options, 0)
    /\ _options' = MergedSource(_options, options)
    /\ UNCHANGED seen

InitPair ==
  /\ goTo = createGoTo([NoOptions EXCEPT !.duration = Given(2)])
  /\ _options = NoOptions
  /\ seen = NotSeen([NoOptions EXCEPT !.duration = Given(2)])
  /\ pane = NoPane
  /\ rtl = FALSE
  /\ scroll \in {[c \in Containers |-> IF c = "body" THEN b ELSE [top |-> 0, left |-> 0]] :
                  b \in StartPositions(rtl)}
  /\ now = 0
  /\ runs = [r \in {1, 2} |-> IdleRun]

NextPair ==
  \/ \E r \in Runs : GoPair(r)
  \/ \E r \in Runs : Step(r)
  \/ LaterFrame

SpecPair ==
  /\ InitPair /\ [][NextPair]_vars
  /\ WF_vars(LaterFrame) /\ WF_vars(Step(1)) /\ WF_vars(Step(2))

\* One call of go or go.horizontal followed up to the point where scrollTo
\* returns its promise, for every layering of the options: what the
\* application gave createGoTo, what the component gave useGoTo and what the
\* call gives.
CreateLayers ==
  {NoOptions,
   [NoOptions EXCEPT !.duration = Given(2)],
   [NoOptions EXCEPT !.duration = Given(3), !.easing = Given(EaseName("linear"))],
   [NoOptions EXCEPT !.offset = Given(1),
                     !.patterns = [NoPatterns EXCEPT !["custom"] = "linear"]],
   [NoOptions EXCEPT !.layout = Given(TRUE)],
   [NoOptions EXCEPT !.container = Given(Sel("#box"))]}
UseLayers ==
  {NoOptions,
   [NoOptions EXCEPT !.easing = Given(EaseName("easeOutQuad"))],
   [NoOptions EXCEPT !.duration = Given(1), !.offset = Given(-1)],
   [NoOptions EXCEPT !.patterns = [NoPatterns EXCEPT !["custom"] = "back"]],
   [NoOptions EXCEPT !.easing = Given(EaseName("linear")),
                     !.patterns = [NoPatterns EXCEPT !["linear"] = "back"]]}

InitCalls ==
  /\ \E create \in CreateLayers :
       /\ goTo = createGoTo(create)
       /\ seen = NotSeen(create)
  /\ _options \in UseLayers
  /\ pane = NoPane
  /\ rtl \in BOOLEAN
  /\ scroll \in {[c \in Containers |-> IF c = "body" THEN b ELSE [top |-> 0, left |-> 0]] :
                  b \in StartPositions(rtl)}
  /\ now = 0
  /\ runs = [r \in {1} |-> IdleRun]

\* go(target, options) when horizontal is FALSE and go.horizontal(target,
\* options) when it is TRUE, with the arguments noted.
CallSeen(r, targets, horizontal) ==
  \E target \in targets, options \in CallOptions :
    /\ ScrollTo(r, target, mergeDeep(_options, options), horizontal, 0)
    /\ _options' = MergedSource(_options, options)
    /\ seen' = [seen EXCEPT !.fn = "go", !.target = target, !.options = options,
                            !.horizontal = horizontal]

GoSeen(r) == CallSeen(r, Targets, FALSE)
GoHorizontalSeen(r) == CallSeen(r, Targets, TRUE)

NextCalls ==
  \/ \E r \in Runs : GoSeen(r)
  \/ \E r \in Runs : GoHorizontalSeen(r)

SpecCalls == InitCalls /\ [][NextCalls]_vars

\* Two calls made one after the other through the same facade, on either
\* entry point and with any per-call options.
SequenceTargets == {Num(2), El("item")}

InitSequence ==
  /\ \E cfg \in Configurations :
       /\ goTo = createGoTo(cfg.create)
       /\ _options = cfg.use
       /\ seen = NotSeen(cfg.create)
  /\ pane = NoPane
  /\ rtl \in BOOLEAN
  /\ scroll \in {[c \in Containers |-> IF c = "body" THEN b ELSE [top |-> 0, left |-> 0]] :
                  b \in StartPositions(rtl)}
  /\ now = 0
  /\ runs = [r \in {1, 2} |-> IdleRun]

GoNext(r) == CallSeen(r, SequenceTargets, FALSE)
GoHorizontalNext(r) == CallSeen(r, SequenceTargets, TRUE)

NextSequence ==
  \/ \E r \in Runs : GoNext(r)
  \/ \E r \in Runs : GoHorizontalNext(r)

SpecSequence == InitSequence /\ [][NextSequence]_vars

\* The helpers clampTarget and getOffset called on their own, on the pane of
\* documents of every geometry within the bounds.
PaneSizes == 0..MaxSize
PaneHeights == {0, 2, MaxSize + 1}
Panes ==
  {[NoPane EXCEPT !.scrollWidth = sw, !.offsetWidth = ow,
                  !.scrollHeight = sh, !.offsetHeight = oh] :
     sw \in PaneSizes, ow \in PaneSizes, sh \in PaneHeights, oh \in PaneHeights}
  \cup {[NoPane EXCEPT !.offsetLeft = l, !.offsetTop = t, !.offsetParent = p] :
          l \in {0, 1}, t \in {2, 5}, p \in {"none", "item", "box", "body"}}

ClampValues == (-(MaxSize + 2))..(MaxSize + 2)
OffsetTargets ==
  {Num(n) : n \in {-2, 0, 1, MaxSize}}
  \cup {El("pane"), Sel("#pane"), Cmp("pane"), El("item"), El("body"),
        Sel("#missing"), Cmp("none")}

InitHelpers ==
  /\ goTo = createGoTo(NoOptions)
  /\ _options = NoOptions
  /\ seen = NotSeen(NoOptions)
  /\ pane \in Panes
  /\ rtl = FALSE
  /\ scroll = [c \in Containers |-> [top |-> 0, left |-> 0]]
  /\ now = 0
  /\ runs = [r \in {1} |-> IdleRun]

\* clampTarget(pane, value, rtl, horizontal), the one call followed.
ClampTargetCall ==
  \E value \in ClampValues, rtlFlag \in BOOLEAN, horizontal \in BOOLEAN :
    /\ seen.fn = "none"
    /\ seen' = [seen EXCEPT !.fn = "clampTarget", !.target = El("pane"),
                            !.value = value, !.rtl = rtlFlag,
                            !.horizontal = horizontal,
                            !.result = clampTarget("pane", value, rtlFlag, horizontal)]
    /\ UNCHANGED <<goTo, rtl, _options, scroll, now, runs, pane>>

\* getOffset(target, horizontal, rtl), the one call followed.
GetOffsetCall ==
  \E target \in OffsetTargets, rtlFlag \in BOOLEAN, horizontal \in BOOLEAN :
    /\ seen.fn = "none"
    /\ seen' = [seen EXCEPT !.fn = "getOffset", !.target = target,
                            !.value = 0, !.rtl = rtlFlag,
                            !.horizontal = horizontal,
                            !.result = getOffset(target, horizontal, rtlFlag)]
    /\ UNCHANGED <<goTo, rtl, _options, scroll, now, runs, pane>>

NextHelpers ==
  \/ ClampTargetCall
  \/ GetOffsetCall

SpecHelpers == InitHelpers /\ [][NextHelpers]_vars

\* ------------------------------------------------------------------ helpers

\* The scroll position of run r's container on the axis the run animates.
Position(r) ==
  IF runs[r].horizontal THEN scroll[runs[r].container].left
  ELSE scroll[runs[r].container].top

\* Run r reached line 115: its easing resolved and its locations are set.
Started(r) == runs[r].st \in {"Running", "Settled"}

\* The curves of genDefaults(): each is monotonic on [0, 1] with values in
\* [0, 1].
UnitCurves == BuiltinNames

Between(x, a, b) == Min(a, b) <= x /\ x <= Max(a, b)

\* The container of run r was at its scrollable end when r was called.
AtEndAtCall(r) ==
  ClientSize(runs[r].container, runs[r].horizontal) + runs[r].startLocation
    >= ScrollSize(runs[r].container, runs[r].horizontal)

\* ------------------------------------------------------------------- claims

\* C1: a promise settles at most once: a run that has resolved has no frame
\* callback requested or due, and from then on its record (its result, the
\* frames it ran, the location it last wrote) and the scroll positions it
\* could write stay as they are, whatever the timestamps of later frames.
C1_SettlesOnce ==
  [][\A r \in Runs :
       /\ runs'[r].st = "Settled" => runs'[r].cb = "none"
       /\ runs[r].st = "Settled" => runs'[r] = runs[r] /\ scroll' = scroll]_vars

\* C1 witness: a run that resolved at progress 1 after at least two frames.
C1_Witness ==
  \E r \in Runs : runs[r].st = "Settled" /\ runs[r].via = "complete"
                  /\ runs[r].frames >= 2

\* C2: when the clamped target location equals the start location, scrollTo
\* resolves at once with that value: no frame is requested, no callback runs
\* and the scroll position is never written.
C2_ShortCircuit ==
  \A r \in Runs :
    Started(r) /\ runs[r].targetLocation = runs[r].startLocation =>
      /\ runs[r].st = "Settled" /\ runs[r].via = "immediate"
      /\ runs[r].result = runs[r].startLocation
      /\ runs[r].cb = "none" /\ runs[r].frames = 0 /\ ~runs[r].wrote
      /\ Position(r) = runs[r].startLocation

\* C2 witness: a short circuit away from the origin.
C2_Witness ==
  \E r \in Runs : runs[r].via = "immediate" /\ runs[r].result # 0

\* C3: an easing name that the merged patterns do not bind makes scrollTo
\* fail before a target location is computed, with no frame requested and no
\* write, on the vertical and on the horizontal entry point.
C3_MissingEasingFails ==
  \A r \in Runs :
    runs[r].st # "Idle" /\ runs[r].easing.kind = "name" /\ runs[r].ease = "none" =>
      /\ runs[r].st = "Failed"
      /\ ~runs[r].located /\ runs[r].cb = "none"
      /\ runs[r].frames = 0 /\ ~runs[r].wrote

\* C3 witness: go.horizontal failed on a missing easing name.
C3_Witness ==
  \E r \in Runs : runs[r].st = "Failed" /\ runs[r].horizontal
                  /\ runs[r].easing = EaseName("doesNotExist")

\* C4: with duration 0 and a target away from the start, the first callback
\* resolves the promise with the target location, whatever its timestamp,
\* and requests no second frame.
C4_ZeroDuration ==
  \A r \in Runs :
    Started(r) /\ runs[r].duration = 0 /\ runs[r].via # "immediate" =>
      \/ runs[r].st = "Running" /\ runs[r].frames = 0
      \/ /\ runs[r].st = "Settled" /\ runs[r].frames = 1
         /\ runs[r].result = runs[r].targetLocation /\ runs[r].cb = "none"

\* C4 witness: a zero-duration run resolved by a frame whose timestamp
\* precedes the run's start time.
C4_Witness ==
  \E r \in Runs : runs[r].st = "Settled" /\ runs[r].duration = 0
                  /\ runs[r].frames = 1 /\ runs[r].timeElapsed < 0

\* C7: the value a promise resolves with is the target location on every
\* settlement path.  It is the container's scroll position at settlement on
\* the short circuit, and at progress 1 when the location written there is
\* the target location and the DOM stores it unchanged; at a boundary it is
\* greater than the scroll position.
C7_ResolvesWithTarget ==
  \A r \in Runs :
    runs[r].st = "Settled" =>
      /\ runs[r].result = runs[r].targetLocation
      /\ runs[r].via = "immediate" => runs[r].result = Position(r)
      /\ ( /\ runs[r].via = "complete"
           /\ runs[r].location = runs[r].targetLocation
           /\ DomScroll(runs[r].container, runs[r].horizontal, rtl,
                        runs[r].targetLocation) = runs[r].targetLocation )
         => runs[r].result = Position(r)
      /\ runs[r].via = "boundary" => runs[r].result > Position(r)

\* C7 witness: a run completed at progress 1 after at least two frames and
\* resolved with the position the container is at.
C7_Witness ==
  \E r \in Runs : runs[r].st = "Settled" /\ runs[r].via = "complete"
                  /\ runs[r].frames >= 2 /\ runs[r].result = Position(r)
                  /\ runs[r].result # runs[r].startLocation

\* C7 as stated: on every settlement path the resolved value is the
\* container's scroll position at settlement.
C7_ResolvesWithPosition ==
  \A r \in Runs : runs[r].st = "Settled" => runs[r].result = Position(r)

\* C8 as stated: with a curve that is monotonic with values in [0, 1], every
\* location a run writes lies between its start and its target location, and
\* the run resolves with the target location.
C8_NoOvershoot ==
  \A r \in Runs :
    runs[r].wrote /\ runs[r].ease \in UnitCurves =>
      /\ Between(runs[r].location, runs[r].startLocation, runs[r].targetLocation)
      /\ runs[r].st = "Settled" => runs[r].result = runs[r].targetLocation

\* C10: a run called with its container at the scrollable end and its target
\* beyond the start location resolves with the target location on its first
\* frame and requests no further frame, provided the location that frame
\* writes is not below the start location.
C10_ResolvesAtEnd ==
  \A r \in Runs :
    ( /\ Started(r) /\ AtEndAtCall(r)
      /\ runs[r].targetLocation > runs[r].startLocation
      /\ runs[r].frames = 1
      /\ runs[r].location >= runs[r].startLocation ) =>
      /\ runs[r].st = "Settled" /\ runs[r].result = runs[r].targetLocation
      /\ runs[r].cb = "none"

\* C10 witness: such a run resolved on its first frame with progress below 1.
C10_Witness ==
  \E r \in Runs : /\ runs[r].st = "Settled" /\ runs[r].via = "boundary"
                  /\ AtEndAtCall(r) /\ runs[r].frames = 1
                  /\ runs[r].targetLocation > runs[r].startLocation

\* C10 as stated: such a run resolves on its first frame whatever the
\* easing.
C10_AlwaysResolvesAtEnd ==
  \A r \in Runs :
    ( /\ Started(r) /\ AtEndAtCall(r)
      /\ runs[r].targetLocation > runs[r].startLocation
      /\ runs[r].frames >= 1 ) =>
      /\ runs[r].st = "Settled" /\ runs[r].frames = 1
      /\ runs[r].result = runs[r].targetLocation /\ runs[r].cb = "none"

\* C5: a run that has started settles, by completing at progress 1 or by
\* stopping at a boundary, when frames keep arriving with later and later
\* timestamps.
C5_EventuallySettles ==
  \A r \in {1} :
    (runs[r].st = "Running") ~>
      (runs[r].st = "Settled" /\ runs[r].via \in {"complete", "boundary"})

\* C5 witness: a run of positive duration completed by a frame later than its
\* end time, after at least two frames.
C5_Witness ==
  \E r \in Runs : /\ runs[r].st = "Settled" /\ runs[r].via = "complete"
                  /\ runs[r].frames >= 2 /\ runs[r].duration > 0
                  /\ runs[r].timeElapsed > runs[r].duration

\* C6: of two runs in flight on one container, each resolves, and with the
\* target location it computed when it was called.
C6_BothResolve ==
  \A r \in {1, 2} :
    (runs[r].st = "Running") ~>
      (runs[r].st = "Settled" /\ runs[r].result = runs[r].targetLocation)

\* C6 witness: two runs on the same container and axis, in flight at the same
\* time, each of which ran at least two frames, resolved with different
\* values.
C6_Witness ==
  /\ runs[1].st = "Settled" /\ runs[2].st = "Settled"
  /\ runs[1].container = runs[2].container
  /\ runs[1].horizontal = runs[2].horizontal
  /\ runs[1].frames >= 2 /\ runs[2].frames >= 2
  /\ runs[1].startTime <= runs[2].startTime
  /\ runs[2].startTime < runs[1].startTime + runs[1].duration
  /\ runs[1].result # runs[2].result

\* A callback of run r runs in this step, and r has written before.
NextWrite(r) ==
  runs[r].cb = "ready" /\ runs'[r].cb # "ready" /\ runs[r].wrote

Distance(run) == Abs(run.targetLocation - run.location)

PaneRoom ==
  IF seen.horizontal THEN pane.scrollWidth - pane.offsetWidth
  ELSE pane.scrollHeight - pane.offsetHeight
PaneMin == IF seen.horizontal /\ seen.rtl THEN -PaneRoom ELSE 0
PaneMax == IF seen.horizontal /\ seen.rtl THEN 0 ELSE PaneRoom

\* C11: for a container whose scroll size is at least its outer size on the
\* axis, clampTarget returns a value in [min, max], and the value itself
\* when it already lies in the range; for a container whose scroll size is
\* smaller than its outer size (max < min) it returns min.
C11_ClampBounds ==
  seen.fn = "clampTarget" =>
    /\ PaneRoom >= 0 =>
          /\ PaneMin <= seen.result /\ seen.result <= PaneMax
          /\ (PaneMin <= seen.value /\ seen.value <= PaneMax) => seen.result = seen.value
    /\ PaneRoom < 0 => seen.result = PaneMin

\* C11 witness: a horizontal right-to-left clamp of a positive value on a
\* pane with room to scroll returns 0.
C11_Witness ==
  /\ seen.fn = "clampTarget" /\ seen.horizontal /\ seen.rtl
  /\ PaneRoom >= 2 /\ seen.value > 0 /\ seen.result = 0

\* C11 as stated: for every container geometry the result lies in
\* [min, max] and is the value when the value lies in the range.
C11_ClampBoundsAnyGeometry ==
  seen.fn = "clampTarget" =>
    /\ PaneMin <= seen.result /\ seen.result <= PaneMax
    /\ (PaneMin <= seen.value /\ seen.value <= PaneMax) => seen.result = seen.value

\* C12: clampTarget is idempotent: clamping the result of a clamp again, on
\* the same container, axis and direction, returns that result.
C12_ClampIdempotent ==
  seen.fn = "clampTarget" =>
    clampTarget("pane", seen.result, seen.rtl, seen.horizontal) = seen.result

\* C12 witness: a clamp that changed its value.
C12_Witness ==
  /\ seen.fn = "clampTarget" /\ seen.result # seen.value
  /\ PaneRoom > 0 /\ seen.value > PaneMax + 1

\* C15: getOffset of a number n is -n when horizontal and rtl are both set
\* and n in every other case.
C15_NumericOffset ==
  (seen.fn = "getOffset" /\ seen.target.kind = "num") =>
    seen.result = IF seen.horizontal /\ seen.rtl THEN -seen.target.n
                  ELSE seen.target.n

\* C15 witness: a positive number negated.
C15_Witness ==
  /\ seen.fn = "getOffset" /\ seen.target.kind = "num"
  /\ seen.target.n > 0 /\ seen.result = -seen.target.n

\* The offset of element e on the axis of the call followed, and the sum of
\* the offsets of e and of the elements above it on the offsetParent chain (a
\* chain of this document has at most four elements).
AxisOffset(e) == IF seen.horizontal THEN OffsetLeft(e) ELSE OffsetTop(e)
ChainSum(e) ==
  AxisOffset(e) + AxisOffset(OffsetParent(e))
  + AxisOffset(OffsetParent(OffsetParent(e)))
  + AxisOffset(OffsetParent(OffsetParent(OffsetParent(e))))

\* C16: getOffset of an element is the sum of the axis offsets of the
\* element and of every element on its offsetParent chain, whatever rtl is.
C16_ElementOffset ==
  (seen.fn = "getOffset" /\ seen.target.kind # "num"
     /\ getTarget(seen.target) # "none") =>
    seen.result = ChainSum(getTarget(seen.target))

\* C16 witness: the vertical offset of a pane three levels below the body,
\* asked with rtl set.
C16_Witness ==
  /\ seen.fn = "getOffset" /\ seen.target = El("pane") /\ seen.rtl
  /\ ~seen.horizontal /\ pane.offsetParent = "item"
  /\ seen.result = pane.offsetTop + 4 /\ pane.offsetTop > 0

\* The layers of options of the call followed, lowest precedence first: the
\* library defaults, what createGoTo was given, what useGoTo was given and
\* what the call was given.  For each key the value of the highest layer that
\* sets it; for patterns, name by name.
LayeredKey(d, c, u, p) ==
  IF p.set THEN p ELSE IF u.set THEN u ELSE IF c.set THEN c ELSE d
LayeredPattern(name) ==
  IF seen.options.patterns[name] # "none" THEN seen.options.patterns[name]
  ELSE IF _options.patterns[name] # "none" THEN _options.patterns[name]
  ELSE IF seen.create.patterns[name] # "none" THEN seen.create.patterns[name]
  ELSE IF name \in BuiltinNames THEN name ELSE "none"
Layered ==
  [container |-> LayeredKey(Given(Undef), seen.create.container,
                            _options.container, seen.options.container),
   duration |-> LayeredKey(Given(DefaultDuration), seen.create.duration,
                           _options.duration, seen.options.duration),
   layout |-> LayeredKey(Given(FALSE), seen.create.layout,
                         _options.layout, seen.options.layout),
   offset |-> LayeredKey(Given(0), seen.create.offset,
                         _options.offset, seen.options.offset),
   easing |-> LayeredKey(Given(EaseName("easeInOutCubic")), seen.create.easing,
                         _options.easing, seen.options.easing),
   patterns |-> [name \in PatternNames |-> LayeredPattern(name)]]

\* C13: the options scrollTo uses are, key by key, those of the highest
\* layer that sets the key (defaults < createGoTo < useGoTo < the call), and
\* the patterns are the built-in ones with the entries of the higher layers
\* added or put in place of entries of the same name: the duration, the
\* easing and the curve of the run, its container and its target location
\* are the ones these options give.
C13_LayeredOptions ==
  \A r \in Runs :
    (seen.fn = "go" /\ runs[r].st # "Idle") =>
      /\ runs[r].duration = Layered.duration.v
      /\ runs[r].easing = Layered.easing.v
      /\ runs[r].ease = IF Layered.easing.v.kind = "fn" THEN Layered.easing.v.id
                        ELSE LayeredPattern(Layered.easing.v.id)
      /\ runs[r].container = ResolveContainer(Layered, ResolveTarget(seen.target))
      /\ runs[r].located =>
            runs[r].targetLocation =
              TargetLocation(ResolveTarget(seen.target), runs[r].container,
                             Layered, seen.horizontal, rtl)

\* C13 witness: a call whose duration comes from useGoTo over createGoTo,
\* whose easing name comes from the call over createGoTo and whose curve
\* comes from the patterns of the call.
C13_Witness ==
  \E r \in Runs :
    /\ seen.fn = "go" /\ runs[r].st = "Running"
    /\ seen.create.duration = Given(3) /\ _options.duration = Given(1)
    /\ seen.create.easing = Given(EaseName("linear"))
    /\ seen.options.easing = Given(EaseName("custom"))
    /\ runs[r].duration = 1 /\ runs[r].ease = "back"

\* C14: no call of go or go.horizontal changes the options of the shared
\* instance or the options the facade was built with, and a call made
\* without options of its own uses the duration and the easing the layers
\* below it give, whatever the calls before it were given.
C14_SharedOptionsKept ==
  [][/\ goTo' = goTo
     /\ _options' = _options
     /\ \A r \in Runs :
          (runs[r].st = "Idle" /\ runs'[r].st # "Idle" /\ seen'.options = NoOptions) =>
            /\ runs'[r].duration =
                 LayeredKey(Given(DefaultDuration), seen.create.duration,
                            _options.duration, NoOptions.duration).v
            /\ runs'[r].easing =
                 LayeredKey(Given(EaseName("easeInOutCubic")), seen.create.easing,
                            _options.easing, NoOptions.easing).v]_vars

\* C14 witness: a call without options of its own, made after a call that
\* was given a duration of its own.
C14_Witness ==
  \E r \in Runs, q \in Runs :
    /\ r # q /\ runs[r].st # "Idle" /\ runs[q].st # "Idle"
    /\ seen.options = NoOptions
    /\ runs[q].duration = 1 /\ runs[r].duration # 1

\* The layout top of the call's target: 0 unless the target is an element,
\* the layout option is set and the computed style reports a value.
LayoutAdjustment ==
  LET target == ResolveTarget(seen.target)
  IN  IF target.kind # "num" /\ Layered.layout.v /\ LayoutTop(target.id).has
      THEN LayoutTop(target.id).px ELSE 0

\* The target location before the layout adjustment, the offset and the clamp.
BaseLocation(r) ==
  LET target == ResolveTarget(seen.target)
  IN  IF target.kind = "num" THEN getOffset(target, seen.horizontal, rtl)
      ELSE getOffset(target, seen.horizontal, rtl)
           - getOffset(El(runs[r].container), seen.horizontal, rtl)

\* C17 as stated: the layout top is subtracted in a vertical scroll only; the
\* target location of a horizontal scroll does not depend on it, and numeric
\* targets are never adjusted.
C17_LayoutVerticalOnly ==
  \A r \in Runs :
    (seen.fn = "go" /\ runs[r].located) =>
      runs[r].targetLocation =
        clampTarget(runs[r].container,
                    BaseLocation(r)
                      - (IF seen.horizontal THEN 0 ELSE LayoutAdjustment)
                      + Layered.offset.v,
                    rtl, seen.horizontal)

\* C18: a call whose target resolves to nothing fails only when its easing
\* is missing; otherwise its target location is the clamp of 0 + offset and
\* its container is the one the container option resolves to, the
\* document's scrolling element when that option is unset or "parent".
C18_MissingTarget ==
  \A r \in Runs :
    (seen.fn = "go" /\ runs[r].st # "Idle"
       /\ seen.target.kind # "num" /\ getTarget(seen.target) = "none") =>
      /\ runs[r].st = "Failed" => runs[r].ease = "none"
      /\ runs[r].st # "Failed" =>
            /\ runs[r].located
            /\ runs[r].targetLocation =
                 clampTarget(runs[r].container, 0 + Layered.offset.v, rtl, seen.horizontal)
      /\ runs[r].container =
           IF Layered.container.v \in {Undef, Sel("parent")} THEN ScrollingElement
           ELSE getContainer(Layered.container.v)

\* C18 witness: a selector without a match, scrolled to with the container
\* option "parent" and an offset of 1.
C18_Witness ==
  \E r \in Runs :
    /\ seen.fn = "go" /\ seen.target = Sel("#missing")
    /\ seen.options.container = Given(Sel("parent"))
    /\ runs[r].st = "Running" /\ runs[r].container = "body"
    /\ Layered.offset.v = 1 /\ runs[r].targetLocation = 1

\* C19: a run whose curve is one of genDefaults() and whose target location
\* is below its start location is never resolved by the boundary check, on
\* either axis, even when its container was at its scrollable end: it
\* resolves only on the frame whose progress is 1.
C19_BackwardNeverAtBoundary ==
  \A r \in Runs :
    ( /\ Started(r) /\ runs[r].ease \in UnitCurves
      /\ runs[r].targetLocation < runs[r].startLocation
      /\ runs[r].st = "Settled" ) =>
      /\ runs[r].via = "complete"
      /\ Finished(Progress(runs[r].duration, runs[r].timeElapsed))

\* C19 witness: a run going backward from the scrollable end of its
\* container that resolved at progress 1 on its second frame or later.
C19_Witness ==
  \E r \in Runs :
    /\ runs[r].st = "Settled" /\ runs[r].via = "complete"
    /\ runs[r].ease \in UnitCurves /\ AtEndAtCall(r)
    /\ runs[r].targetLocation < runs[r].startLocation
    /\ runs[r].frames >= 2

\* The scroll size less the outer size of run r's container on the axis the
\* run animates.
Room(r) ==
  IF runs[r].horizontal
  THEN ScrollWidth(runs[r].container) - OffsetWidth(runs[r].container)
  ELSE ScrollHeight(runs[r].container) - OffsetHeight(runs[r].container)

\* C20: for a container whose scroll size is at least its outer size, the
\* value a promise resolves with lies in [-(room), 0] for a horizontal
\* right-to-left scroll and in [0, room] for every other scroll, room being
\* the scroll size less the outer size.
C20_ResultInRange ==
  \A r \in Runs :
    (runs[r].st = "Settled" /\ Room(r) >= 0) =>
      IF runs[r].horizontal /\ rtl
      THEN -Room(r) <= runs[r].result /\ runs[r].result <= 0
      ELSE 0 <= runs[r].result /\ runs[r].result <= Room(r)

\* C20 witness: a horizontal right-to-left run resolved, after a frame, with
\* the lower end of its range.
C20_Witness ==
  \E r \in Runs :
    /\ runs[r].st = "Settled" /\ runs[r].horizontal /\ rtl
    /\ runs[r].frames >= 1 /\ Room(r) > 0 /\ runs[r].result = -Room(r)

====
